---- MODULE Spec2Model ----
(***************************************************************************)
(* A model of issabel_client.IssabelClient (src/issabel_client/client.py): *)
(* the session's token state, the requests it sends and the responses the  *)
(* PBX may give.  Every blocking HTTP exchange is two steps: the call      *)
(* sends its request, and a later step receives whatever response the      *)
(* server chose and runs the handler's code up to its next request or its  *)
(* end.                                                                    *)
(*                                                                         *)
(* Python values: a str is a TLA+ string, None is the string NoneVal, a    *)
(* dict is a function from its keys, Optional[Dict] None is NoneObj.       *)
(***************************************************************************)
EXTENDS Integers, Sequences, FiniteSets, TLC

VARIABLES base_url, verify_ssl, access_token, refresh_token, headers,
          frame, caller_obj

vars == <<base_url, verify_ssl, access_token, refresh_token, headers,
          frame, caller_obj>>

session_vars == <<access_token, refresh_token, headers>>

-----------------------------------------------------------------------------
(* Bounds and program constants *)

\* how many distinct token pairs the server can issue
NumTokens == 2

HTTP_OK == 200
HTTP_UNAUTHORIZED == 401
\* the error statuses, other than 401, that the server answers with
ServerErrors == {500}
SnippetLen == 200

\* the thread that makes the calls of a single-threaded client
Main == "main"
Threads == {Main}

-----------------------------------------------------------------------------
(* Python values *)

NoneVal == "<None>"
NoneObj == [py_none |-> "None"]
EmptyDict == <<>>

\* bool(v) of a str or None
TruthyVal(v) == v # NoneVal /\ v # ""
\* bool(d) of an Optional[Dict]
TruthyObj(d) == d # NoneObj /\ DOMAIN d # {}
\* d.get(k)
Get(d, k) == IF k \in DOMAIN d THEN d[k] ELSE NoneVal
\* str(v) as an f-string renders it
Str(v) == IF v = NoneVal THEN "None" ELSE v
\* s[:n]
Slice(s, n) == IF Len(s) <= n THEN s ELSE SubSeq(s, 1, n)
\* d after d[k] = v
SetItem(d, k, v) == [x \in DOMAIN d \cup {k} |-> IF x = k THEN v ELSE d[x]]
\* dict.update / the merge of session headers with a request's headers
Update(d, e) == [x \in DOMAIN d \cup DOMAIN e |-> IF x \in DOMAIN e THEN e[x] ELSE d[x]]

RECURSIVE RStripSlash(_)
RStripSlash(s) ==
    IF Len(s) > 0 /\ SubSeq(s, Len(s), Len(s)) = "/"
    THEN RStripSlash(SubSeq(s, 1, Len(s) - 1))
    ELSE s

\* urljoin(base, path) for a base ending in "/" and a relative path
Urljoin(base, path) == base \o path

-----------------------------------------------------------------------------
(* HTTP responses: what the server may answer *)

\* json.dumps of the objects the server sends, keys in a fixed order
KeyOrder == <<"status", "access_token", "refresh_token", "error", "content">>

RECURSIVE DumpsFrom(_, _, _)
DumpsFrom(obj, i, first) ==
    IF i > Len(KeyOrder) THEN "}"
    ELSE IF KeyOrder[i] \in DOMAIN obj
         THEN (IF first THEN "" ELSE ", ") \o "\"" \o KeyOrder[i] \o "\": \""
              \o obj[KeyOrder[i]] \o "\"" \o DumpsFrom(obj, i + 1, FALSE)
         ELSE DumpsFrom(obj, i + 1, first)

Dumps(obj) == "{" \o DumpsFrom(obj, 1, TRUE)

JsonBody(obj) == [text |-> Dumps(obj), valid |-> TRUE, obj |-> obj]
RawBody(s) == [text |-> s, valid |-> FALSE, obj |-> EmptyDict]
EmptyBody == RawBody("")

Response(status, body, url) ==
    [status_code |-> status, text |-> body.text, valid |-> body.valid,
     obj |-> body.obj, url |-> url]

NoResponse == Response(0, EmptyBody, "")

P50 == "<html><body><h1>Service Unavailable</h1><p>pbxapi "
\* a diagnostic page longer than the snippet the client keeps
LongPage == P50 \o P50 \o P50 \o P50 \o "is down</p></body></html>"
ShortPage == "<html>oops</html>"

Acc(n) == "acc" \o ToString(n)
Ref(n) == "ref" \o ToString(n)
TokenIds == 1..NumTokens

\* bodies the authentication endpoint may send
AuthBodies ==
    {JsonBody([access_token |-> Acc(n), refresh_token |-> Ref(n)]) : n \in TokenIds}
    \cup {JsonBody([access_token |-> Acc(1)]), JsonBody([refresh_token |-> Ref(1)]),
          JsonBody(EmptyDict), EmptyBody, RawBody(ShortPage), RawBody(LongPage),
          JsonBody([error |-> "invalid credentials"]),
          JsonBody([error |-> "denied", content |-> "bad user"])}

AuthStatuses == {HTTP_OK, HTTP_UNAUTHORIZED} \cup ServerErrors

-----------------------------------------------------------------------------
(* requests.Response methods *)

IsHTTPError(response) == response.status_code >= 400 /\ response.status_code < 600

\* str(e) of the HTTPError raise_for_status raises
HTTPErrorStr(response) ==
    ToString(response.status_code)
    \o (IF response.status_code < 500 THEN " Client Error" ELSE " Server Error")
    \o " for url: " \o response.url

\* a parse that gives None for a body that is not JSON, as for an empty one
_safe_json_parse_NoneOnError(response) ==
    IF response.text = "" \/ ~response.valid THEN NoneObj ELSE response.obj

\* lines 41-47
_safe_json_parse(response) ==
    IF response.text = "" THEN NoneObj
    ELSE IF response.valid THEN response.obj
    ELSE [error |-> "Invalid JSON response", content |-> response.text]

\* "x or {}"
OrEmpty(d) == IF TruthyObj(d) THEN d ELSE EmptyDict

-----------------------------------------------------------------------------
(* Call frames *)

NoOutcome == [kind |-> "none"]
Returns(v) == [kind |-> "return", value |-> v]
Raises(exc, msg) == [kind |-> "raise", exc |-> exc, msg |-> msg]

Snapshot == [access_token |-> access_token, refresh_token |-> refresh_token,
             headers |-> headers]

NoSession == [access_token |-> NoneVal, refresh_token |-> NoneVal,
              headers |-> EmptyDict]

\* a path identifier: Optional[Union[str, int]], or the list delete_resource takes
PyNone == [t |-> "none"]
PyStr(s) == [t |-> "str", s |-> s]
PyInt(i) == [t |-> "int", i |-> i]
PyList(items) == [t |-> "list", items |-> items]

\* a call's locals (method .. response) and its history: the attribute name it
\* was made through (via), the identifier it was given (id_arg), the requests it
\* sent, the responses it received, how often it called renew_token, the
\* session at its start (pre) and at its latest renew_token call (renew_pre);
\* sent_with notes, for a call that shares the session with another thread, the
\* session a request was built from and the session at the time it went out
IdleFrame ==
    [pc |-> "idle", op |-> "", via |-> "", resource |-> "", id_arg |-> PyNone,
     path_id |-> PyNone, method |-> "", url |-> "", data |-> "null",
     local_obj |-> EmptyDict, params |-> NoneObj, reload |-> FALSE,
     arg_data |-> NoneObj, response |-> NoResponse, sent |-> <<>>, rcvd |-> <<>>,
     renew_calls |-> 0, outcome |-> NoOutcome, pre |-> NoSession,
     renew_pre |-> NoSession, sent_with |-> <<>>]

CanCall(t) == frame[t].pc \in {"idle", "done"}

\* a request as the transport sends it: session headers merged with the call's
Request(method, url, form, json, params, hdrs) ==
    [method |-> method, url |-> url, data |-> form, json |-> json,
     params |-> params, headers |-> Update(headers, hdrs), verify |-> verify_ssl]

Hosts == {"192.168.1.100", "pbx.example.org/"}

\* __init__
Init ==
    /\ \E host \in Hosts :
         base_url = "https://" \o RStripSlash(host) \o "/pbxapi/"
    /\ verify_ssl = FALSE
    /\ access_token = NoneVal
    /\ refresh_token = NoneVal
    /\ headers = EmptyDict
    /\ frame = [t \in Threads |-> IdleFrame]
    /\ caller_obj = [t \in Threads |-> EmptyDict]

-----------------------------------------------------------------------------
(* authenticate *)

BearerHeader(token) == [Authorization |-> "Bearer " \o Str(token)]

\* lines 58-63: post the credentials
AuthenticateCall(t) ==
    /\ CanCall(t)
    /\ \E username \in {"admin"}, password \in {"password"} :
         LET url == Urljoin(base_url, "authenticate")
             req == Request("POST", url, [user |-> username, password |-> password],
                            NoneObj, NoneObj, EmptyDict)
         IN frame' = [frame EXCEPT ![t] =
                [IdleFrame EXCEPT !.pc = "authenticate", !.op = "authenticate",
                                  !.method = "POST", !.url = url,
                                  !.sent = <<req>>, !.pre = Snapshot]]
    /\ UNCHANGED <<base_url, verify_ssl, session_vars, caller_obj>>

\* lines 64-77 on the parsed result
AuthenticateFinish(t, response) ==
    LET result == _safe_json_parse(response)
        fr == [frame[t] EXCEPT !.pc = "done", !.response = response,
                               !.rcvd = Append(@, response)]
    IN IF IsHTTPError(response)
       THEN /\ frame' = [frame EXCEPT ![t] =
                    [fr EXCEPT !.outcome = Raises("HTTPError", HTTPErrorStr(response))]]
            /\ UNCHANGED session_vars
       ELSE IF TruthyObj(result) /\ "error" \in DOMAIN result
       THEN /\ frame' = [frame EXCEPT ![t] = [fr EXCEPT !.outcome =
                    IF "content" \in DOMAIN result
                    THEN Raises("ValueError",
                           "Authentication failed: Server returned non-JSON response. Content: "
                           \o Slice(result["content"], SnippetLen))
                    ELSE Raises("KeyError", "content")]]
            /\ UNCHANGED session_vars
       ELSE LET at == IF TruthyObj(result) THEN Get(result, "access_token") ELSE NoneVal
                rt == IF TruthyObj(result) THEN Get(result, "refresh_token") ELSE NoneVal
            IN /\ access_token' = at
               /\ refresh_token' = rt
               /\ headers' = IF TruthyVal(at) THEN Update(headers, BearerHeader(at))
                             ELSE headers
               /\ frame' = [frame EXCEPT ![t] =
                       [fr EXCEPT !.outcome = Returns(OrEmpty(result))]]

AuthenticateRecv(t) ==
    /\ frame[t].pc = "authenticate"
    /\ \E status \in AuthStatuses, body \in AuthBodies :
         AuthenticateFinish(t, Response(status, body, frame[t].url))
    /\ UNCHANGED <<base_url, verify_ssl, caller_obj>>

-----------------------------------------------------------------------------
(* renew_token *)

\* bodies the renewal endpoint may send
RenewBodies ==
    {JsonBody([status |-> "authorized", access_token |-> Acc(n),
               refresh_token |-> Ref(n)]) : n \in TokenIds}
    \cup {JsonBody([status |-> "authorized"]), JsonBody([status |-> "invalid"]),
          EmptyBody, RawBody(ShortPage)}

RenewResponses(url) ==
    {Response(HTTP_OK, body, url) : body \in RenewBodies}
    \cup {Response(HTTP_UNAUTHORIZED, JsonBody([status |-> "invalid"]), url)}
    \cup {Response(status, RawBody(LongPage), url) : status \in ServerErrors}

\* a precondition that looks at the access token only
RenewMissingToken_AccessOnly == ~TruthyVal(access_token)

\* line 86: the precondition of renew_token
RenewMissingToken == ~TruthyVal(refresh_token) \/ ~TruthyVal(access_token)

RenewMissingMsg == "No refresh token or access token available. Authenticate first."

\* lines 89-90: the renewal request
\* line 89, from the tokens as they were read
RenewUrl(session) ==
    Urljoin(base_url, "authenticate/renewtoken?refresh_token="
                      \o Str(session.refresh_token) \o "&access_token="
                      \o Str(session.access_token))

RenewRequest == Request("GET", RenewUrl(Snapshot), NoneObj, NoneObj, NoneObj, EmptyDict)

\* a renewal that takes any non-empty result for an authorization
RenewAuthorized_AnyStatus(result) == TruthyObj(result)

RenewAuthorized(result) == TruthyObj(result) /\ Get(result, "status") = "authorized"

\* a renewal that stores the new access token and keeps the old refresh token
RenewApply_KeepsRefresh(response) ==
    LET result == _safe_json_parse(response)
    IN IF TruthyObj(result) /\ Get(result, "status") = "authorized"
       THEN /\ access_token' = Get(result, "access_token")
            /\ headers' = Update(headers, BearerHeader(Get(result, "access_token")))
            /\ UNCHANGED refresh_token
       ELSE UNCHANGED session_vars

\* lines 93-99: what a renewal response with a success status does to the session
RenewApply(response) ==
    LET result == _safe_json_parse(response)
    IN IF RenewAuthorized(result)
       THEN /\ access_token' = Get(result, "access_token")
            /\ refresh_token' = Get(result, "refresh_token")
            /\ headers' = Update(headers, BearerHeader(Get(result, "access_token")))
       ELSE UNCHANGED session_vars

\* line 100
RenewResult(response) == OrEmpty(_safe_json_parse(response))

\* renew_token called by the client's user
RenewTokenCall(t) ==
    /\ CanCall(t)
    /\ LET fr == [IdleFrame EXCEPT !.op = "renew_token", !.renew_calls = 1,
                                   !.pre = Snapshot, !.renew_pre = Snapshot]
       IN frame' = [frame EXCEPT ![t] =
            IF RenewMissingToken
            THEN [fr EXCEPT !.pc = "done",
                            !.outcome = Raises("ValueError", RenewMissingMsg)]
            ELSE [fr EXCEPT !.pc = "renew_token", !.method = "GET",
                            !.url = RenewRequest.url, !.sent = <<RenewRequest>>]]
    /\ UNCHANGED <<base_url, verify_ssl, session_vars, caller_obj>>

RenewTokenRecv(t) ==
    /\ frame[t].pc = "renew_token"
    /\ \E response \in RenewResponses(frame[t].sent[Len(frame[t].sent)].url) :
         LET fr == [frame[t] EXCEPT !.pc = "done", !.response = response,
                                    !.rcvd = Append(@, response)]
         IN IF IsHTTPError(response)
            THEN /\ frame' = [frame EXCEPT ![t] = [fr EXCEPT !.outcome =
                         Raises("HTTPError", HTTPErrorStr(response))]]
                 /\ UNCHANGED session_vars
            ELSE /\ RenewApply(response)
                 /\ frame' = [frame EXCEPT ![t] = [fr EXCEPT !.outcome =
                         Returns(RenewResult(response))]]
    /\ UNCHANGED <<base_url, verify_ssl, caller_obj>>

-----------------------------------------------------------------------------
(* _request *)

\* bool(path_id)
TruthyId(v) == \/ v.t = "str" /\ v.s # ""
               \/ v.t = "int" /\ v.i # 0
StrId(v) == IF v.t = "str" THEN v.s ELSE IF v.t = "int" THEN ToString(v.i) ELSE "None"

\* lines 122-124
BuildPath(resource, path_id) ==
    IF TruthyId(path_id) THEN resource \o "/" \o StrId(path_id) ELSE resource

ContentTypeJson == ("Content-Type" :> "application/json")

\* the responses a resource endpoint may give
ResourceResponses(url) ==
    {Response(HTTP_OK, body, url) :
        body \in {JsonBody([status |-> "success"]), JsonBody([status |-> "expired"]),
                  EmptyBody, RawBody(ShortPage)}}
    \cup {Response(HTTP_UNAUTHORIZED, RawBody("Unauthorized"), url)}
    \cup {Response(status, RawBody(ShortPage), url) : status \in ServerErrors}

\* the dict the local name data refers to
Deref(t, fr) ==
    IF fr.data = "caller" THEN caller_obj[t]
    ELSE IF fr.data = "local" THEN fr.local_obj
    ELSE NoneObj

\* lines 138-145 (and 150-157, 164-171): the resource request
ResourceRequest(t, fr) ==
    Request(fr.method, fr.url, NoneObj, Deref(t, fr), fr.params, ContentTypeJson)

\* the arguments of a _request call
RequestArgs(op, method, resource, path_id, data, params, reload) ==
    [op |-> op, method |-> method, resource |-> resource, path_id |-> path_id,
     data |-> data, params |-> params, reload |-> reload]

HasBody(method) == method \in {"POST", "PUT"}

\* lines 129-133: the dict that data refers to when the request is sent.
\* data is NoneObj or the caller's own dict, which the call refers to, not copies.
MergeReload(a) ==
    LET d == IF a.data = NoneObj THEN EmptyDict ELSE a.data
    IN IF HasBody(a.method) /\ a.reload THEN SetItem(d, "reload", "true") ELSE d

\* what data refers to: the caller's dict, the dict of line 131, or None
DataRef(a) ==
    IF a.data # NoneObj THEN "caller"
    ELSE IF HasBody(a.method) THEN "local" ELSE "null"

\* lines 122-145: the locals of the call once its first request is sent
StartFrame(call, a) ==
    LET url == Urljoin(base_url, BuildPath(a.resource, a.path_id))
        sentBody == IF DataRef(a) = "null" THEN NoneObj ELSE MergeReload(a)
    IN [IdleFrame EXCEPT !.pc = "request", !.op = a.op, !.method = a.method,
                         !.via = call.via, !.id_arg = call.id_arg,
                         !.resource = a.resource, !.path_id = a.path_id,
                         !.url = url, !.data = DataRef(a), !.params = a.params,
                         !.arg_data = a.data, !.pre = Snapshot, !.reload = a.reload,
                         !.local_obj = IF DataRef(a) = "local" THEN MergeReload(a)
                                       ELSE EmptyDict,
                         !.sent = <<Request(a.method, url, NoneObj, sentBody,
                                            a.params, ContentTypeJson)>>]

\* the caller's dict after lines 129-133
StartCallerObj(a) == IF DataRef(a) = "caller" THEN MergeReload(a) ELSE a.data

\* lines 122-145: build the path, merge reload into data, send the request
RequestStart(t, call, a) ==
    /\ caller_obj' = [caller_obj EXCEPT ![t] = StartCallerObj(a)]
    /\ frame' = [frame EXCEPT ![t] = StartFrame(call, a)]
    /\ UNCHANGED <<base_url, verify_ssl, session_vars>>

\* a _request without the except clause: the HTTPError escapes
FinishOutcome_Raises(response) ==
    IF IsHTTPError(response)
    THEN Raises("HTTPError", HTTPErrorStr(response))
    ELSE Returns(OrEmpty(_safe_json_parse(response)))

\* lines 173-177: raise_for_status, parse, and the except clause
FinishOutcome(response) ==
    IF IsHTTPError(response)
    THEN Returns([error |-> HTTPErrorStr(response), response |-> response.text])
    ELSE Returns(OrEmpty(_safe_json_parse(response)))

RequestFinish(t, fr, response) ==
    /\ frame' = [frame EXCEPT ![t] =
           [fr EXCEPT !.pc = "done", !.outcome = FinishOutcome(response)]]
    /\ UNCHANGED session_vars

\* lines 149 and 163: self.renew_token() up to its request
RequestRenew(t, fr, pcNext) ==
    /\ frame' = [frame EXCEPT ![t] =
         IF RenewMissingToken
         THEN [fr EXCEPT !.pc = "done", !.renew_calls = @ + 1,
                         !.renew_pre = Snapshot,
                         !.outcome = Raises("ValueError", RenewMissingMsg)]
         ELSE [fr EXCEPT !.pc = pcNext, !.renew_calls = @ + 1,
                         !.renew_pre = Snapshot,
                         !.sent = Append(@, RenewRequest)]]
    /\ UNCHANGED session_vars

\* line 162
SignalsExpired(response) ==
    LET result == _safe_json_parse(response)
    IN TruthyObj(result) /\ Get(result, "status") = "expired"

\* a _request without the legacy check of the body
Check200_NoLegacy(t, fr, response) == RequestFinish(t, fr, response)

\* lines 159-175 on the value of response
Check200(t, fr, response) ==
    IF response.status_code = HTTP_OK /\ SignalsExpired(response)
    THEN RequestRenew(t, fr, "renew200")
    ELSE RequestFinish(t, fr, response)

\* a _request that renews on every HTTP error status
Check401_AnyError(t, fr, response) ==
    IF IsHTTPError(response)
    THEN RequestRenew(t, fr, "renew401")
    ELSE Check200(t, fr, response)

\* lines 147-175 on the first response
Check401(t, fr, response) ==
    IF response.status_code = HTTP_UNAUTHORIZED
    THEN RequestRenew(t, fr, "renew401")
    ELSE Check200(t, fr, response)

\* the first response arrives
RequestRecv(t) ==
    /\ frame[t].pc = "request"
    /\ \E response \in ResourceResponses(frame[t].url) :
         Check401(t, [frame[t] EXCEPT !.response = response,
                                      !.rcvd = Append(@, response)], response)
    /\ UNCHANGED <<base_url, verify_ssl, caller_obj>>

\* a resend prepared before the renewal, with the headers of that time
Resend_StaleHeader(t, fr) ==
    [ResourceRequest(t, fr) EXCEPT !.headers = Update(headers, ContentTypeJson)]

\* lines 150-157 and 164-171: the request sent again once renew_token has
\* returned, the session merging the headers it holds by then
Resend(t, fr) ==
    [ResourceRequest(t, fr) EXCEPT !.headers = Update(headers', ContentTypeJson)]

\* the renewal response arrives inside _request: the rest of renew_token, then
\* the resend (lines 150-157 or 164-171); an HTTPError of renew_token is caught
\* at line 176 with response still the resource response
RenewRecvIn(t, pcHere, pcNext) ==
    /\ frame[t].pc = pcHere
    /\ \E renewal \in RenewResponses(frame[t].sent[Len(frame[t].sent)].url) :
         LET fr == [frame[t] EXCEPT !.rcvd = Append(@, renewal)]
         IN IF IsHTTPError(renewal)
            THEN /\ frame' = [frame EXCEPT ![t] = [fr EXCEPT !.pc = "done", !.outcome =
                         Returns([error |-> HTTPErrorStr(renewal),
                                  response |-> fr.response.text])]]
                 /\ UNCHANGED session_vars
            ELSE /\ RenewApply(renewal)
                 /\ frame' = [frame EXCEPT ![t] = [fr EXCEPT !.pc = pcNext, !.sent =
                         Append(@, Resend(t, fr))]]
    /\ UNCHANGED <<base_url, verify_ssl, caller_obj>>

Renew401Recv(t) == RenewRecvIn(t, "renew401", "resend401")
Renew200Recv(t) == RenewRecvIn(t, "renew200", "resend200")

\* the response to the resend of line 150 arrives
Resend401Recv(t) ==
    /\ frame[t].pc = "resend401"
    /\ \E response \in ResourceResponses(frame[t].url) :
         Check200(t, [frame[t] EXCEPT !.response = response,
                                      !.rcvd = Append(@, response)], response)
    /\ UNCHANGED <<base_url, verify_ssl, caller_obj>>

\* the response to the resend of line 164 arrives
Resend200Recv(t) ==
    /\ frame[t].pc = "resend200"
    /\ \E response \in ResourceResponses(frame[t].url) :
         RequestFinish(t, [frame[t] EXCEPT !.response = response,
                                           !.rcvd = Append(@, response)], response)
    /\ UNCHANGED <<base_url, verify_ssl, caller_obj>>

-----------------------------------------------------------------------------
(* The generic CRUD operations *)

Resources == {"extensions"}
Ids == {PyStr("100")}
\* the other identifiers a caller passes: integers and the empty string
EdgeIds == {PyInt(7), PyInt(0), PyStr("")}
\* the identifier lists a caller passes to delete_resource
IdLists == {PyList(<<>>), PyList(<<PyStr("100"), PyStr("101")>>),
            PyList(<<PyInt(101), PyStr("100")>>)}
\* the mappings a caller passes as data
CallerDicts == {[name |-> "Test"], [name |-> "Test", reload |-> "false"]}

\* a call of the generic operation itself, not through a dynamic name
Direct(id_arg) == [via |-> "", id_arg |-> id_arg]

\* lines 195-205, fields not given
GetResource(resource, resource_id) ==
    RequestArgs("get_resource", "GET", resource, resource_id, NoneObj, EmptyDict, TRUE)

\* lines 207-209
CreateResource(resource, data, reload) ==
    RequestArgs("create_resource", "POST", resource, PyNone, data, NoneObj, reload)

\* lines 211-219
UpdateResource(resource, resource_id, data, reload) ==
    RequestArgs("update_resource", "PUT", resource, resource_id, data, NoneObj, reload)

\* the identifiers joined last to first
RECURSIVE JoinComma_Reversed(_)
JoinComma_Reversed(items) ==
    IF items = <<>> THEN ""
    ELSE IF Len(items) = 1 THEN StrId(items[1])
    ELSE JoinComma_Reversed(Tail(items)) \o "," \o StrId(items[1])

\* ",".join(map(str, items))
RECURSIVE JoinComma(_)
JoinComma(items) ==
    IF items = <<>> THEN ""
    ELSE IF Len(items) = 1 THEN StrId(items[1])
    ELSE StrId(items[1]) \o "," \o JoinComma(Tail(items))

\* lines 224-225
DeletePathId(resource_id) ==
    IF resource_id.t = "list" THEN PyStr(JoinComma(resource_id.items))
    ELSE resource_id

\* lines 221-226
DeleteResource(resource, resource_id, reload) ==
    RequestArgs("delete_resource", "DELETE", resource, DeletePathId(resource_id),
                NoneObj, NoneObj, reload)

GetResourceCall(t) ==
    /\ CanCall(t)
    /\ \E resource \in Resources, resource_id \in Ids \cup EdgeIds \cup {PyNone} :
         RequestStart(t, Direct(resource_id), GetResource(resource, resource_id))

CreateResourceCall(t) ==
    /\ CanCall(t)
    /\ \E resource \in Resources, data \in CallerDicts \cup {NoneObj}, reload \in BOOLEAN :
         RequestStart(t, Direct(PyNone), CreateResource(resource, data, reload))

UpdateResourceCall(t) ==
    /\ CanCall(t)
    /\ \E resource \in Resources, resource_id \in Ids, data \in CallerDicts,
          reload \in BOOLEAN :
         RequestStart(t, Direct(resource_id),
                      UpdateResource(resource, resource_id, data, reload))

DeleteResourceCall(t) ==
    /\ CanCall(t)
    /\ \E resource \in Resources, resource_id \in Ids \cup {PyInt(0)} \cup IdLists :
         RequestStart(t, Direct(resource_id),
                      DeleteResource(resource, resource_id, TRUE))

-----------------------------------------------------------------------------
(* __getattr__: the operations named get_<resource> .. delete_<resource> *)

\* s.startswith(p)
StartsWith(s, p) == Len(s) >= Len(p) /\ SubSeq(s, 1, Len(p)) = p
\* s[n:]
From(s, n) == SubSeq(s, n + 1, Len(s))

\* the attributes normal lookup finds, for which __getattr__ is not consulted
Members == {"base_url", "verify_ssl", "access_token", "refresh_token", "session",
            "_safe_json_parse", "authenticate", "renew_token", "_request", "search",
            "get_resource", "create_resource", "update_resource", "delete_resource"}

\* the attribute names a caller uses
AttrNames == {"get_extensions", "create_extensions", "update_extensions",
              "delete_extensions", "get_resource", "create_resource",
              "foo_bar", "getextensions", "search_extensions"}

\* a call through the attribute name, with the identifier it was given
Via(name, id_arg) == [via |-> name, id_arg |-> id_arg]

\* prefixes tested without their underscore
DynamicVerb_NoUnderscore(name) ==
    IF StartsWith(name, "get") THEN "get"
    ELSE IF StartsWith(name, "create") THEN "create"
    ELSE IF StartsWith(name, "update") THEN "update"
    ELSE IF StartsWith(name, "delete") THEN "delete"
    ELSE "none"

\* lines 233-244: which branch of __getattr__ takes the name
DynamicVerb(name) ==
    IF StartsWith(name, "get_") THEN "get"
    ELSE IF StartsWith(name, "create_") THEN "create"
    ELSE IF StartsWith(name, "update_") THEN "update"
    ELSE IF StartsWith(name, "delete_") THEN "delete"
    ELSE "none"

\* every name cut after four characters
DynamicResource_Cut4(name) == From(name, 4)

\* lines 234, 237, 240, 243: the resource the name is cut to
DynamicResource(name) ==
    IF DynamicVerb(name) = "get" THEN From(name, 4) ELSE From(name, 7)

\* line 246
AttributeErrorMsg(name) == "'IssabelClient' object has no attribute '" \o name \o "'"

\* a call that ends before any request, with an exception
RaisedFrame(op, name, exc, msg) ==
    [IdleFrame EXCEPT !.pc = "done", !.op = op, !.via = name, !.pre = Snapshot,
                      !.outcome = Raises(exc, msg)]

EndsRaising(t, op, name, exc, msg) ==
    /\ frame' = [frame EXCEPT ![t] = RaisedFrame(op, name, exc, msg)]
    /\ UNCHANGED <<base_url, verify_ssl, session_vars, caller_obj>>

\* line 235: get_<resource>(resource_id=None)
DynamicGet(t, name) ==
    \E resource_id \in Ids \cup {PyNone} :
        RequestStart(t, Via(name, resource_id),
                     GetResource(DynamicResource(name), resource_id))

\* line 238: create_<resource>(data)
DynamicCreate(t, name) ==
    \E data \in {[name |-> "Test"]}, reload \in BOOLEAN :
        RequestStart(t, Via(name, PyNone),
                     CreateResource(DynamicResource(name), data, reload))

\* line 241: update_<resource>(resource_id, data)
DynamicUpdate(t, name) ==
    \E resource_id \in Ids, data \in {[name |-> "Test"]} :
        RequestStart(t, Via(name, resource_id),
                     UpdateResource(DynamicResource(name), resource_id, data, TRUE))

\* line 244: delete_<resource>(resource_id)
DynamicDelete(t, name) ==
    \E resource_id \in Ids \cup {PyList(<<>>)} :
        RequestStart(t, Via(name, resource_id),
                     DeleteResource(DynamicResource(name), resource_id, TRUE))

\* a generic operation called the way a dynamic one is, without a resource:
\* get_resource(resource_id) binds the identifier to resource (line 197), and
\* the other three lack a required argument
MemberCall(t, name) ==
    IF name = "get_resource"
    THEN \E resource_id \in Ids \cup {PyNone} :
            IF resource_id = PyNone
            THEN EndsRaising(t, "call", name, "TypeError",
                             "missing 1 required positional argument: 'resource'")
            ELSE RequestStart(t, Via(name, resource_id),
                              GetResource(StrId(resource_id), PyNone))
    ELSE EndsRaising(t, "call", name, "TypeError",
                     "missing 1 required positional argument")

\* lines 229-246: the attribute is looked up, and called when the lookup gives
\* an operation
AttributeCall(t) ==
    /\ CanCall(t)
    /\ \E name \in AttrNames :
         \/ name \in Members /\ MemberCall(t, name)
         \/ name \notin Members /\ DynamicVerb(name) = "get" /\ DynamicGet(t, name)
         \/ name \notin Members /\ DynamicVerb(name) = "create" /\ DynamicCreate(t, name)
         \/ name \notin Members /\ DynamicVerb(name) = "update" /\ DynamicUpdate(t, name)
         \/ name \notin Members /\ DynamicVerb(name) = "delete" /\ DynamicDelete(t, name)
         \/ name \notin Members /\ DynamicVerb(name) = "none"
            /\ EndsRaising(t, "__getattr__", name, "AttributeError",
                           AttributeErrorMsg(name))

-----------------------------------------------------------------------------

Next ==
    \/ AuthenticateCall(Main)
    \/ AuthenticateRecv(Main)
    \/ RenewTokenCall(Main)
    \/ RenewTokenRecv(Main)
    \/ GetResourceCall(Main)
    \/ CreateResourceCall(Main)
    \/ UpdateResourceCall(Main)
    \/ DeleteResourceCall(Main)
    \/ AttributeCall(Main)
    \/ RequestRecv(Main)
    \/ Renew401Recv(Main)
    \/ Resend401Recv(Main)
    \/ Renew200Recv(Main)
    \/ Resend200Recv(Main)

Spec == Init /\ [][Next]_vars

-----------------------------------------------------------------------------
(* What a finished or running call has done *)

F == frame[Main]

RequestOps == {"get_resource", "create_resource", "update_resource",
               "delete_resource"}

IsRenewalRequest(req) ==
    LET prefix == Urljoin(base_url, "authenticate/renewtoken")
    IN Len(req.url) >= Len(prefix) /\ SubSeq(req.url, 1, Len(prefix)) = prefix

\* how many times the call sent its resource request
ResourceSends(fr) ==
    Cardinality({i \in 1..Len(fr.sent) : ~IsRenewalRequest(fr.sent[i])})

\* how many renewal requests the call sent
RenewSends(fr) ==
    Cardinality({i \in 1..Len(fr.sent) : IsRenewalRequest(fr.sent[i])})

Authenticated(session) ==
    TruthyVal(session.access_token) /\ TruthyVal(session.refresh_token)

\* a response that ends the recovery: a success status, not the expiry signal
Succeeds(response) ==
    ~IsHTTPError(response)
    /\ ~(response.status_code = HTTP_OK /\ SignalsExpired(response))

\* a renewal response that reports "authorized" with a success status
RenewalAuthorized(response) ==
    ~IsHTTPError(response) /\ RenewAuthorized(_safe_json_parse(response))

-----------------------------------------------------------------------------
(* C1 *)

\* C1: in every dispatch, whatever the server answers, the resource request is
\* sent at most twice (one resend) and renew_token is called at most once.
\* The code runs the 200/"expired" check on the response to the resend of the
\* 401 branch as well, so this fails.
C1_AtMostOneResend ==
    F.op \in RequestOps => ResourceSends(F) <= 2 /\ F.renew_calls <= 1

-----------------------------------------------------------------------------
(* C2 *)

\* the case of C2: an authenticated session, a 401, an authorized renewal and
\* a resend that succeeds
C2_Case ==
    /\ F.op \in RequestOps /\ F.pc = "done"
    /\ Authenticated(F.pre)
    /\ Len(F.rcvd) >= 3
    /\ F.rcvd[1].status_code = HTTP_UNAUTHORIZED
    /\ RenewalAuthorized(F.rcvd[2])
    /\ Succeeds(F.rcvd[3])

\* C2: on an authenticated session, after a first response of 401, a renewal
\* answered "authorized" and a resend that succeeds, dispatch returns the
\* resend's parsed body (an empty mapping for an empty body), the session's
\* tokens are the renewed ones, and exactly one renew_token call and exactly
\* one resend have occurred.
C2_RecoveryAfter401 ==
    C2_Case =>
        /\ F.outcome = Returns(IF F.rcvd[3].text = "" THEN EmptyDict
                               ELSE IF F.rcvd[3].valid THEN F.rcvd[3].obj
                               ELSE [error |-> "Invalid JSON response",
                                     content |-> F.rcvd[3].text])
        /\ access_token = Get(F.rcvd[2].obj, "access_token")
        /\ refresh_token = Get(F.rcvd[2].obj, "refresh_token")
        /\ F.renew_calls = 1
        /\ RenewSends(F) = 1
        /\ ResourceSends(F) = 2
        /\ Len(F.rcvd) = 3

C2_Witness ==
    /\ C2_Case
    /\ F.rcvd[2].obj = [status |-> "authorized", access_token |-> Acc(2),
                        refresh_token |-> Ref(2)]
    /\ F.pre.access_token = Acc(1)
    /\ access_token = Acc(2)
    /\ F.outcome = Returns([status |-> "success"])

-----------------------------------------------------------------------------
(* C3 *)

\* the first response is a 200 whose parsed body has status = "expired"
C3_FirstExpired ==
    /\ F.op \in RequestOps /\ F.pc = "done"
    /\ F.rcvd[1].status_code = HTTP_OK
    /\ F.rcvd[1].valid /\ Get(F.rcvd[1].obj, "status") = "expired"

\* the single renew and the single resend, and the resend's outcome returned
C3_SingleRenewSingleResend ==
    /\ F.renew_calls = 1
    /\ ResourceSends(F) = 2
    /\ Len(F.rcvd) = 3
    /\ F.outcome.kind = "return"
    /\ F.outcome.value =
         IF IsHTTPError(F.rcvd[3])
         THEN [error |-> HTTPErrorStr(F.rcvd[3]), response |-> F.rcvd[3].text]
         ELSE IF F.rcvd[3].text = "" THEN EmptyDict
         ELSE IF F.rcvd[3].valid THEN F.rcvd[3].obj
         ELSE [error |-> "Invalid JSON response", content |-> F.rcvd[3].text]

\* C3 as claimed: every dispatch whose first response is a 200 with status
\* "expired" makes exactly one renew_token call and exactly one resend and
\* returns the outcome of the resend.
C3_Original == C3_FirstExpired => C3_SingleRenewSingleResend

\* C3 as amended: the same, provided the renew_token call returns (both tokens
\* are present and the renewal response has a success status); when it raises,
\* no resend is made.
C3_ExpiredBodyRecovery ==
    /\ C3_FirstExpired /\ Authenticated(F.pre)
       /\ Len(F.rcvd) >= 2 /\ ~IsHTTPError(F.rcvd[2])
       => C3_SingleRenewSingleResend
    /\ C3_FirstExpired /\ ~(Authenticated(F.pre)
                            /\ Len(F.rcvd) >= 2 /\ ~IsHTTPError(F.rcvd[2]))
       => F.renew_calls = 1 /\ ResourceSends(F) = 1

C3_Witness ==
    /\ C3_FirstExpired
    /\ Len(F.rcvd) = 3
    /\ F.rcvd[2].obj = [status |-> "invalid"]
    /\ F.rcvd[3].status_code = HTTP_OK
    /\ F.rcvd[3].obj = [status |-> "expired"]
    /\ F.outcome = Returns([status |-> "expired"])

-----------------------------------------------------------------------------
(* C4 *)

\* the resend that follows a 401 was itself answered with 401
C4_Case ==
    /\ F.op \in RequestOps
    /\ Len(F.rcvd) >= 3
    /\ F.rcvd[1].status_code = HTTP_UNAUTHORIZED
    /\ F.rcvd[3].status_code = HTTP_UNAUTHORIZED

\* C4: when the resend that follows a 401 is itself answered with 401, the
\* call is over: it has made one renew_token call and sent the resource
\* request twice and nothing more, and it returned a mapping with an error
\* key instead of raising.
C4_Second401Surfaced ==
    C4_Case =>
        /\ F.pc = "done"
        /\ F.renew_calls = 1
        /\ RenewSends(F) = 1
        /\ ResourceSends(F) = 2
        /\ Len(F.rcvd) = 3
        /\ F.outcome.kind = "return"
        /\ "error" \in DOMAIN F.outcome.value

C4_Witness ==
    /\ C4_Case
    /\ F.pc = "done"
    /\ F.outcome.kind = "return"
    /\ F.outcome.value.response = "Unauthorized"

-----------------------------------------------------------------------------
(* C5 *)

\* C5: once an authenticate or renew_token has set the Authorization header,
\* the header is "Bearer <t>" with t the session's current access_token.
\* authenticate leaves the header of an earlier token in place when its
\* response carries no access token, so this fails.
C5_HeaderNamesStoredToken ==
    "Authorization" \in DOMAIN headers =>
        headers["Authorization"] = "Bearer " \o Str(access_token)

-----------------------------------------------------------------------------
(* C6 *)

\* C6: create and update with reload enabled send the caller's mapping plus
\* reload = "true", and the caller's mapping is what it was before the call.
\* The code writes reload into the caller's own mapping, so this fails.
C6_CallerMappingUntouched ==
    F.op \in {"create_resource", "update_resource"} /\ F.reload
    /\ F.arg_data # NoneObj =>
        /\ F.sent[1].json = [k \in DOMAIN F.arg_data \cup {"reload"} |->
                                IF k = "reload" THEN "true" ELSE F.arg_data[k]]
        /\ caller_obj[Main] = F.arg_data

-----------------------------------------------------------------------------
(* C7 *)

\* C7: a renew_token call made while the access token or the refresh token is
\* absent has raised the "not authenticated" error, has sent no request to the
\* renewal endpoint, and has left tokens and Authorization header as they were.
C7_RenewNeedsBothTokens ==
    F.renew_calls > 0 /\ ~Authenticated(F.renew_pre) =>
        /\ F.pc = "done"
        /\ F.outcome.kind = "raise"
        /\ F.outcome.exc = "ValueError"
        /\ RenewSends(F) = F.renew_calls - 1
        /\ Snapshot = F.renew_pre

C7_Witness ==
    /\ F.op = "renew_token" /\ F.pc = "done"
    /\ F.pre.access_token = Acc(1)
    /\ F.pre.refresh_token = NoneVal
    /\ F.outcome.kind = "raise"
    /\ F.sent = <<>>

-----------------------------------------------------------------------------
(* C8 *)

\* renew_token has received an answer whose status is not "authorized"
C8_Case ==
    /\ F.op = "renew_token" /\ F.pc = "done" /\ Len(F.rcvd) = 1
    /\ ~(F.rcvd[1].valid /\ Get(F.rcvd[1].obj, "status") = "authorized")

\* renew_token returned the parsed result and left the session alone
C8_ReturnsAndKeepsSession ==
    /\ F.outcome = Returns(IF F.rcvd[1].text = "" THEN EmptyDict
                           ELSE IF F.rcvd[1].valid THEN F.rcvd[1].obj
                           ELSE [error |-> "Invalid JSON response",
                                 content |-> F.rcvd[1].text])
    /\ Snapshot = F.pre

\* C8 as claimed: whenever the renewal endpoint answers with a status other
\* than "authorized", renew_token returns the raw parsed result and tokens and
\* header are what they were.
C8_Original == C8_Case => C8_ReturnsAndKeepsSession

\* C8 as amended: the same when the answer has a success HTTP status; with an
\* HTTP error status renew_token raises the HTTP error instead of returning,
\* and tokens and header are still what they were.
C8_FailedRenewalKeepsSession ==
    /\ C8_Case /\ ~IsHTTPError(F.rcvd[1]) => C8_ReturnsAndKeepsSession
    /\ C8_Case /\ IsHTTPError(F.rcvd[1]) =>
          /\ F.outcome.kind = "raise" /\ F.outcome.exc = "HTTPError"
          /\ Snapshot = F.pre

C8_Witness ==
    /\ C8_Case
    /\ F.rcvd[1].status_code = HTTP_OK
    /\ F.rcvd[1].obj = [status |-> "invalid"]
    /\ F.outcome = Returns([status |-> "invalid"])
    /\ access_token = Acc(1)

-----------------------------------------------------------------------------
(* C9 *)

AuthFailedPrefix == "Authentication failed: Server returned non-JSON response. Content: "

\* authenticate has received a body that is not JSON
C9_Case ==
    /\ F.op = "authenticate" /\ F.pc = "done"
    /\ F.rcvd[1].text # "" /\ ~F.rcvd[1].valid

\* authenticate raised the error with the body's first SnippetLen characters
\* and set no token
C9_RaisesWithSnippet ==
    /\ F.outcome.kind = "raise"
    /\ F.outcome.exc = "ValueError"
    /\ LET msg == F.outcome.msg
           text == F.rcvd[1].text
           n == IF Len(text) < SnippetLen THEN Len(text) ELSE SnippetLen
       IN /\ Len(msg) = Len(AuthFailedPrefix) + n
          /\ SubSeq(msg, 1, Len(AuthFailedPrefix)) = AuthFailedPrefix
          /\ SubSeq(msg, Len(AuthFailedPrefix) + 1, Len(msg)) = SubSeq(text, 1, n)
    /\ Snapshot = F.pre

-----------------------------------------------------------------------------
(* C10 *)

\* C10: for every authenticate response with a success status whose body is
\* empty or a JSON object, authenticate does not raise, stores the object's
\* access_token and refresh_token (None when absent), sets the Authorization
\* header when an access token is present, and returns the parsed body.
\* An object with an "error" key makes the code raise, so this fails.
C10_AuthenticateStoresTokens ==
    /\ F.op = "authenticate" /\ F.pc = "done"
    /\ ~IsHTTPError(F.rcvd[1])
    /\ (F.rcvd[1].text = "" \/ F.rcvd[1].valid)
    => /\ F.outcome = Returns(F.rcvd[1].obj)
       /\ access_token = Get(F.rcvd[1].obj, "access_token")
       /\ refresh_token = Get(F.rcvd[1].obj, "refresh_token")
       /\ (TruthyVal(access_token) =>
             "Authorization" \in DOMAIN headers
             /\ headers["Authorization"] = "Bearer " \o access_token)

-----------------------------------------------------------------------------
(* C11 *)

\* the response the call received last
LastReceived(fr) == fr.rcvd[Len(fr.rcvd)]

\* C11: a finished dispatch has either returned or raised the "not
\* authenticated" error of a renew_token call made with a token absent; no
\* HTTP error status makes it raise: when the last response it received has a
\* 4xx/5xx status it has returned a mapping with the error description and
\* the raw response text.
C11_HTTPErrorsAreReturned ==
    F.op \in RequestOps /\ F.pc = "done" =>
        /\ F.outcome.kind \in {"return", "raise"}
        /\ F.outcome.kind = "raise" =>
              /\ F.outcome.exc = "ValueError"
              /\ F.outcome.msg = RenewMissingMsg
              /\ F.renew_calls > 0
              /\ ~Authenticated(F.renew_pre)
        /\ F.outcome.kind = "return" /\ LastReceived(F).status_code >= 400 =>
              DOMAIN F.outcome.value = {"error", "response"}

C11_Witness ==
    /\ F.op \in RequestOps /\ F.pc = "done"
    /\ Len(F.rcvd) = 3
    /\ F.rcvd[1].status_code = HTTP_UNAUTHORIZED
    /\ F.rcvd[3].status_code \in ServerErrors
    /\ F.outcome.kind = "return"
    /\ DOMAIN F.outcome.value = {"error", "response"}

-----------------------------------------------------------------------------
(* C12 *)

Verbs == {"get", "create", "update", "delete"}
\* the resource names the dynamic operations are called with
NamedResources == {"extensions", "resource"}

\* the generic operation of verb P called with resource R and the arguments
\* the call in frame fr was given
GenericArgs(P, R, fr) ==
    CASE P = "get" -> GetResource(R, fr.id_arg)
      [] P = "create" -> CreateResource(R, fr.arg_data, fr.reload)
      [] P = "update" -> UpdateResource(R, fr.id_arg, fr.arg_data, fr.reload)
      [] P = "delete" -> DeleteResource(R, fr.id_arg, fr.reload)

StartFields == {"op", "method", "resource", "path_id", "url", "data", "params",
                "reload", "arg_data"}

\* the call running in Main through the name P_R is the generic operation of
\* P with resource R: it starts as that call starts, and keeps its arguments
SameAsGeneric(P, R) ==
    LET g == StartFrame(Via(F.via, F.id_arg), GenericArgs(P, R, F))
    IN /\ F.op = P \o "_resource"
       /\ \A k \in StartFields : F[k] = g[k]
       /\ F.sent # <<>>
       /\ [F.sent[1] EXCEPT !.headers = EmptyDict] = [g.sent[1] EXCEPT !.headers = EmptyDict]
       /\ F.pc = "request" => F = g /\ caller_obj[Main] = StartCallerObj(GenericArgs(P, R, F))

\* C12 as stated: for every resource name R and verb P, the operation named
\* P_R is the generic operation of P called with resource R.
C12_Original ==
    \A P \in Verbs, R \in NamedResources :
        F.via = P \o "_" \o R => SameAsGeneric(P, R)

\* C12: for every resource name R other than "resource" and every verb P,
\* the operation named P_R sends the requests, returns the result and leaves the
\* session as the generic operation of P called with resource R does.
C12_DynamicIsGeneric ==
    \A P \in Verbs, R \in NamedResources \ {"resource"} :
        F.via = P \o "_" \o R => SameAsGeneric(P, R)

C12_Witness ==
    /\ F.via = "update_extensions" /\ F.pc = "done" /\ F.outcome.kind = "return"
    /\ F.sent[1].method = "PUT"
    /\ F.sent[1].url = base_url \o "extensions/100"

-----------------------------------------------------------------------------
(* C15 *)

\* C15: a call through a name that is no member and starts with none of get_,
\* create_, update_, delete_ ends with the AttributeError naming it, sends
\* no request and leaves the session alone.
C15_UnknownAttributeRaises ==
    /\ F.via # "" /\ F.via \notin Members
    /\ \A P \in Verbs : ~StartsWith(F.via, P \o "_")
    => /\ F.pc = "done"
       /\ F.outcome = Raises("AttributeError",
                             "'IssabelClient' object has no attribute '" \o F.via \o "'")
       /\ F.sent = <<>>
       /\ Snapshot = F.pre

C15_Witness ==
    /\ F.via = "getextensions" /\ F.pc = "done"
    /\ F.outcome.kind = "raise" /\ F.outcome.exc = "AttributeError"
    /\ F.sent = <<>>

-----------------------------------------------------------------------------
(* C13 *)

\* the places in the history of the requests that are not renewals
ResourceIdx(fr) == {i \in 1..Len(fr.sent) : ~IsRenewalRequest(fr.sent[i])}

\* the url of the first request of the call in Main
FirstUrl == F.sent[1].url

\* C13: the path of a request is resource/id whenever an id is supplied, for
\* every string and every integer, and the bare resource only when none is.
C13_PathHasSuppliedId ==
    F.op \in RequestOps /\ F.sent # <<>> =>
        IF F.path_id = PyNone THEN FirstUrl = base_url \o F.resource
        ELSE FirstUrl = base_url \o F.resource \o "/" \o StrId(F.path_id)

-----------------------------------------------------------------------------
(* C14 *)

\* C14: delete given a list of one or two identifiers whose join is not empty
\* sends its DELETE to resource/<identifiers joined with commas in list order>,
\* once when no recovery takes place, and every resend goes to the same url.
C14_DeleteJoinsList ==
    /\ F.op = "delete_resource" /\ F.id_arg.t = "list"
    /\ F.id_arg.items # <<>> /\ Len(F.id_arg.items) <= 2
    => LET items == F.id_arg.items
           seg == IF Len(items) = 1 THEN StrId(items[1])
                  ELSE StrId(items[1]) \o "," \o StrId(items[2])
       IN seg # "" =>
            /\ F.sent # <<>>
            /\ \A i \in ResourceIdx(F) :
                  /\ F.sent[i].method = "DELETE"
                  /\ F.sent[i].url = base_url \o F.resource \o "/" \o seg
            /\ F.pc = "done" /\ F.renew_calls = 0 => Len(F.sent) = 1

C14_Witness ==
    /\ F.op = "delete_resource" /\ F.pc = "done"
    /\ F.id_arg = PyList(<<PyInt(101), PyStr("100")>>)
    /\ Len(F.sent) = 1
    /\ F.sent[1].url = base_url \o "extensions/101,100"

-----------------------------------------------------------------------------
(* C19 *)

\* C19: delete_resource never sends its DELETE to the bare resource path: for
\* every identifier argument, an empty list included, the url has an
\* identifier segment after the resource name.
C19_DeleteNeverBareCollection ==
    F.op = "delete_resource" /\ F.sent # <<>> =>
        LET bare == base_url \o F.resource \o "/"
        IN \A i \in ResourceIdx(F) :
              /\ Len(F.sent[i].url) > Len(bare)
              /\ StartsWith(F.sent[i].url, bare)

-----------------------------------------------------------------------------
(* C16 *)

\* the renewal response says "authorized"
SaysAuthorized(response) ==
    /\ response.valid /\ "status" \in DOMAIN response.obj
    /\ response.obj["status"] = "authorized"

\* the session headers once the renewal whose request is req has been answered
\* by response: the Authorization header names the access token of an
\* authorized answer, and stays as it was otherwise
HeadersAfterRenewal(req, response) ==
    IF SaysAuthorized(response)
    THEN Update(req.headers,
                [Authorization |-> "Bearer " \o
                    (IF "access_token" \in DOMAIN response.obj
                     THEN response.obj["access_token"] ELSE "None")])
    ELSE req.headers

\* C16: in each recovery of a dispatch the resend follows the answer to the
\* renewal: no request is sent while the renewal is unanswered or when its answer
\* is an HTTP error, and an answer with a success status, "authorized" or not,
\* is followed by exactly one resend that repeats the first request (verb, url,
\* body, query parameters) with the session headers in force after the renewal.
C16_ResendAfterRenewal ==
    F.op \in RequestOps =>
        \A i \in 1..Len(F.sent) :
            IF IsRenewalRequest(F.sent[i])
            THEN /\ i > 1 /\ ~IsRenewalRequest(F.sent[i - 1])
                 /\ Len(F.rcvd) < i => Len(F.sent) = i
                 /\ Len(F.rcvd) >= i /\ IsHTTPError(F.rcvd[i]) => Len(F.sent) = i
                 /\ Len(F.rcvd) >= i /\ ~IsHTTPError(F.rcvd[i]) =>
                       /\ Len(F.sent) > i
                       /\ F.sent[i + 1] =
                             [F.sent[1] EXCEPT !.headers =
                                 Update(HeadersAfterRenewal(F.sent[i], F.rcvd[i]),
                                        ContentTypeJson)]
            ELSE i > 1 => IsRenewalRequest(F.sent[i - 1])

\* a resend that follows a renewal answered "invalid" with a success status
C16_Witness ==
    /\ F.op = "create_resource" /\ F.pc = "done" /\ Len(F.sent) = 3
    /\ F.rcvd[1].status_code = HTTP_UNAUTHORIZED
    /\ ~IsHTTPError(F.rcvd[2]) /\ ~SaysAuthorized(F.rcvd[2])
    /\ F.sent[3].json = [name |-> "Test", reload |-> "true"]
    /\ F.sent[3].json = F.sent[1].json

-----------------------------------------------------------------------------
(* C17 *)

\* C17: the text a returned error carries is the body of the response whose
\* error status its description names, the response to a renewal included.
C17_ErrorTextOfFailingResponse ==
    /\ F.op \in RequestOps /\ F.pc = "done" /\ F.outcome.kind = "return"
    /\ DOMAIN F.outcome.value = {"error", "response"}
    => \E i \in 1..Len(F.rcvd) :
          /\ IsHTTPError(F.rcvd[i])
          /\ F.outcome.value["error"] = HTTPErrorStr(F.rcvd[i])
          /\ F.outcome.value["response"] = F.rcvd[i].text

-----------------------------------------------------------------------------
(* C20 *)

\* a first response that starts no recovery
NoRecovery(response) ==
    /\ response.status_code # HTTP_UNAUTHORIZED
    /\ ~(response.status_code = HTTP_OK /\ SignalsExpired(response))

\* C20: a dispatch whose first response is neither a 401 nor a 200 with
\* status "expired" ends having sent one request, called renew_token never and
\* left the tokens and the Authorization header as they were, and returns.
C20_NoRecoveryNoEffect ==
    F.op \in RequestOps /\ Len(F.rcvd) >= 1 /\ NoRecovery(F.rcvd[1]) =>
        /\ F.pc = "done"
        /\ Len(F.sent) = 1 /\ Len(F.rcvd) = 1
        /\ F.renew_calls = 0
        /\ Snapshot = F.pre
        /\ F.outcome.kind = "return"
        /\ IsHTTPError(F.rcvd[1]) <=> DOMAIN F.outcome.value = {"error", "response"}

\* a server error answered to an authenticated session
C20_Witness ==
    /\ F.op \in RequestOps /\ F.pc = "done" /\ Len(F.rcvd) = 1
    /\ F.rcvd[1].status_code \in ServerErrors
    /\ Authenticated(F.pre)
    /\ F.outcome.kind = "return"

-----------------------------------------------------------------------------
(* Two threads on one session. Threads switch between the statements of
   renew_token and _request, so the steps of a recovery are taken apart here:
   reading the tokens (lines 86-89), sending the renewal (line 90), storing
   the tokens of the answer (lines 91-96), updating the header (lines 97-99)
   and resending (line 150). *)

Worker == "worker"
RaceThreads == {Main, Worker}

InitRace ==
    /\ \E host \in Hosts :
         base_url = "https://" \o RStripSlash(host) \o "/pbxapi/"
    /\ verify_ssl = FALSE
    /\ access_token = NoneVal
    /\ refresh_token = NoneVal
    /\ headers = EmptyDict
    /\ frame = [t \in RaceThreads |-> IdleFrame]
    /\ caller_obj = [t \in RaceThreads |-> EmptyDict]

\* the answers of the resource endpoint to the two calls
RaceResourceResponses(url) ==
    {Response(HTTP_UNAUTHORIZED, RawBody("Unauthorized"), url),
     Response(HTTP_OK, JsonBody([status |-> "success"]), url)}

\* the answers of the renewal endpoint to the two calls
RaceRenewResponses(url) ==
    {Response(HTTP_OK, JsonBody([status |-> "authorized", access_token |-> Acc(n),
                                 refresh_token |-> Ref(n)]), url) : n \in TokenIds}
    \cup {Response(HTTP_OK, JsonBody([status |-> "invalid"]), url)}
    \cup {Response(status, RawBody(LongPage), url) : status \in ServerErrors}

\* what sent_with notes of a request
SentWith(kind, read, session) == [kind |-> kind, read |-> read, session |-> session]

\* the session is authenticated once, before the threads start their calls
RaceAuthenticate ==
    /\ \A t \in RaceThreads : frame[t].pc = "idle"
    /\ AuthenticateCall(Main)

\* each thread makes one call on the authenticated session
RaceDispatch(t) ==
    /\ CanCall(t)
    /\ frame[t].op \notin RequestOps
    /\ Authenticated(Snapshot)
    /\ RequestStart(t, Direct(PyNone), GetResource("extensions", PyNone))

\* lines 138-148 and 159-177: the first response arrives
RaceRequestRecv(t) ==
    /\ frame[t].pc = "request"
    /\ \E response \in RaceResourceResponses(frame[t].url) :
         LET fr == [frame[t] EXCEPT !.response = response,
                                    !.rcvd = Append(@, response)]
         IN IF response.status_code = HTTP_UNAUTHORIZED
            THEN /\ frame' = [frame EXCEPT ![t] = [fr EXCEPT !.pc = "enter401"]]
                 /\ UNCHANGED session_vars
            ELSE Check200(t, fr, response)
    /\ UNCHANGED <<base_url, verify_ssl, caller_obj>>

\* lines 86-89: the precondition, and the url built from the tokens read
RaceRenewRead(t) ==
    /\ frame[t].pc = "enter401"
    /\ frame' = [frame EXCEPT ![t] =
         IF RenewMissingToken
         THEN [@ EXCEPT !.pc = "done", !.renew_calls = @ + 1, !.renew_pre = Snapshot,
                        !.outcome = Raises("ValueError", RenewMissingMsg)]
         ELSE [@ EXCEPT !.pc = "built401", !.renew_calls = @ + 1,
                        !.renew_pre = Snapshot]]
    /\ UNCHANGED <<base_url, verify_ssl, session_vars, caller_obj>>

\* line 90: the renewal request goes out
RaceRenewSend(t) ==
    /\ frame[t].pc = "built401"
    /\ LET fr == frame[t]
       IN frame' = [frame EXCEPT ![t] = [fr EXCEPT
            !.pc = "renew401",
            !.sent = Append(@, Request("GET", RenewUrl(fr.renew_pre), NoneObj, NoneObj,
                                       NoneObj, EmptyDict)),
            !.sent_with = Append(@, SentWith("renewal", fr.renew_pre, Snapshot))]]
    /\ UNCHANGED <<base_url, verify_ssl, session_vars, caller_obj>>

\* lines 91-96: the answer to the renewal; an authorized one has its tokens
\* stored, any other that is no HTTP error is followed by the resend at once
RaceRenewRecv(t) ==
    /\ frame[t].pc = "renew401"
    /\ \E renewal \in RaceRenewResponses(frame[t].sent[Len(frame[t].sent)].url) :
         LET fr == [frame[t] EXCEPT !.rcvd = Append(@, renewal)]
             result == _safe_json_parse(renewal)
         IN IF IsHTTPError(renewal)
            THEN /\ frame' = [frame EXCEPT ![t] = [fr EXCEPT !.pc = "done", !.outcome =
                         Returns([error |-> HTTPErrorStr(renewal),
                                  response |-> fr.response.text])]]
                 /\ UNCHANGED session_vars
            ELSE IF RenewAuthorized(result)
            THEN /\ access_token' = Get(result, "access_token")
                 /\ refresh_token' = Get(result, "refresh_token")
                 /\ UNCHANGED headers
                 /\ frame' = [frame EXCEPT ![t] = [fr EXCEPT !.pc = "stored401"]]
            ELSE /\ UNCHANGED session_vars
                 /\ frame' = [frame EXCEPT ![t] = [fr EXCEPT
                        !.pc = "resend401",
                        !.sent = Append(@, Resend(t, fr)),
                        !.sent_with = Append(@, SentWith("resend", fr.renew_pre,
                                                         Snapshot))]]
    /\ UNCHANGED <<base_url, verify_ssl, caller_obj>>

\* lines 97-100 and 150: the header is set from the access token the session
\* holds by now, and the request is sent again
RaceRenewHeader(t) ==
    /\ frame[t].pc = "stored401"
    /\ headers' = Update(headers, BearerHeader(access_token))
    /\ UNCHANGED <<access_token, refresh_token>>
    /\ LET fr == frame[t]
       IN frame' = [frame EXCEPT ![t] = [fr EXCEPT
            !.pc = "resend401",
            !.sent = Append(@, Resend(t, fr)),
            !.sent_with = Append(@, SentWith("resend", fr.renew_pre,
                                             [Snapshot EXCEPT !.headers = headers']))]]
    /\ UNCHANGED <<base_url, verify_ssl, caller_obj>>

\* lines 159-177: the response to the resend arrives
RaceResendRecv(t) ==
    /\ frame[t].pc = "resend401"
    /\ \E response \in RaceResourceResponses(frame[t].url) :
         Check200(t, [frame[t] EXCEPT !.response = response,
                                      !.rcvd = Append(@, response)], response)
    /\ UNCHANGED <<base_url, verify_ssl, caller_obj>>

NextRace ==
    \/ RaceAuthenticate
    \/ AuthenticateRecv(Main)
    \/ \E t \in RaceThreads :
         \/ RaceDispatch(t)
         \/ RaceRequestRecv(t)
         \/ RaceRenewRead(t)
         \/ RaceRenewSend(t)
         \/ RaceRenewRecv(t)
         \/ RaceRenewHeader(t)
         \/ RaceResendRecv(t)

SpecRace == InitRace /\ [][NextRace]_vars

-----------------------------------------------------------------------------
(* C18 *)

TokenPair(session) == <<session.access_token, session.refresh_token>>

\* a renewal request that carries a token pair the session no longer held when
\* the request went out
StaleRenewal(e) ==
    e.kind = "renewal" /\ TokenPair(e.read) # TokenPair(e.session)

\* a resend whose Authorization header did not name the access token the
\* session held when the resend went out
StaleResend(e) ==
    /\ e.kind = "resend"
    /\ Get(e.session.headers, "Authorization") # "Bearer " \o Str(e.session.access_token)

EnteredRecovery(fr) ==
    /\ fr.op \in RequestOps /\ Len(fr.rcvd) >= 1
    /\ fr.rcvd[1].status_code = HTTP_UNAUTHORIZED

\* the renewal of the call in thread u was answered "authorized" with the token
\* pair of session
ReplacedBy(u, session) ==
    \E i \in 1..Len(frame[u].rcvd) :
        /\ IsRenewalRequest(frame[u].sent[i])
        /\ SaysAuthorized(frame[u].rcvd[i])
        /\ frame[u].rcvd[i].obj["access_token"] = session.access_token
        /\ frame[u].rcvd[i].obj["refresh_token"] = session.refresh_token

\* C18: with two calls interleaving on one session, a renewal request or a
\* resend goes out with tokens the session no longer holds only through the
\* race on the tokens: the other call is in recovery too and its renewal has
\* replaced the pair in between. (The witness shows the interleaving is reachable.)
C18_StaleOnlyByOtherRenewal ==
    \A t \in DOMAIN frame :
        \A k \in 1..Len(frame[t].sent_with) :
            LET e == frame[t].sent_with[k]
            IN StaleRenewal(e) \/ StaleResend(e) =>
                  /\ EnteredRecovery(frame[t])
                  /\ \E u \in DOMAIN frame \ {t} :
                        EnteredRecovery(frame[u]) /\ ReplacedBy(u, e.session)

\* one call's renewal request went out with a pair the other's renewal had replaced
C18_Witness ==
    \E t \in DOMAIN frame, u \in DOMAIN frame :
        /\ t # u
        /\ EnteredRecovery(frame[t]) /\ EnteredRecovery(frame[u])
        /\ \E k \in 1..Len(frame[t].sent_with) :
              /\ StaleRenewal(frame[t].sent_with[k])
              /\ ReplacedBy(u, frame[t].sent_with[k].session)

\* one call's resend went out with the header of a token the other's renewal had replaced
C18_WitnessResend ==
    \E t \in DOMAIN frame, u \in DOMAIN frame :
        /\ t # u
        /\ EnteredRecovery(frame[t]) /\ EnteredRecovery(frame[u])
        /\ \E k \in 1..Len(frame[t].sent_with) :
              /\ StaleResend(frame[t].sent_with[k])
              /\ ReplacedBy(u, frame[t].sent_with[k].session)

====
